---- MODULE Spec2Model ----
(***************************************************************************)
(* proxychain-rs: a SOCKS5 listener that tunnels every accepted connection *)
(* through an upstream HTTP CONNECT proxy.  The model follows the single   *)
(* threaded poll loop of Socks5Server::serve, the per-session state        *)
(* machine Socks5Handler and its child HttpClient.                         *)
(*                                                                         *)
(* Byte strings are sequences of numbers 0..255.  A BytesMut buffer is the *)
(* record [len, data]: its content is data followed by len - Len(data)     *)
(* zero bytes (resize(_, 0) pads with zeros).  The diagnostic counter      *)
(* Socks5Handler::intotal is written and never read; it is left out.       *)
(***************************************************************************)
EXTENDS Integers, Sequences, FiniteSets, TLC

(***************************************************************************)
(* Bounds of the model.                                                    *)
(***************************************************************************)
\* unique_token never grows beyond this value (guards of Accept and Dispatch)
MaxToken == 4
\* the same, where one session is followed
MaxSessionToken == 3
\* sessions alive at once
MaxLive == 2
\* connections one readiness event of the listener accepts at most
MaxAccept == 1
\* payload bytes the model relays in one direction of a session
MaxRelay == 1
\* length of the method frames a peer sends
MaxFrameLen == 4
\* unique_token where the sessions of a tunnel are followed one after another
MaxTunnelToken == 5
\* payload bytes relayed in one direction of a tunnel
MaxTunnelRelay == 2

\* the token counter stops here when serve faces the one session of HappyEnv
MaxHappyToken == 3

(***************************************************************************)
(* Program constants.                                                      *)
(***************************************************************************)
SERVER == 0
BufferInit == 4096
BufferGrow == 1024
U16 == 65536

StateOrder ==
  << "MethodRequest", "MethodResponse", "ConnectionRequest",
     "ClientConnectionRequest", "ClientConnectionResponse",
     "ConnectionResponse", "Relaying", "Closed" >>

Socks5State == { StateOrder[i] : i \in 1..Len(StateOrder) }

HttpClientState ==
  { "ConnectionRequest", "ConnectionEstablished", "RelayingIN", "RelayingOUT",
    "Closed" }

Rank(s) == CHOOSE i \in 1..Len(StateOrder) : StateOrder[i] = s

(***************************************************************************)
(* Byte strings.                                                           *)
(***************************************************************************)
RECURSIVE DecimalString(_)
DecimalString(n) ==
  IF n < 10 THEN << 48 + n >>
  ELSE Append(DecimalString(n \div 10), 48 + (n % 10))

HexDigit(d) == IF d < 10 THEN 48 + d ELSE 87 + d

RECURSIVE HexString(_)
HexString(n) ==
  IF n < 16 THEN << HexDigit(n) >>
  ELSE Append(HexString(n \div 16), HexDigit(n % 16))

RECURSIVE Zeros(_)
Zeros(n) == IF n <= 0 THEN << >> ELSE << 0 >> \o Zeros(n - 1)

Take(s, n) == SubSeq(s, 1, IF n < Len(s) THEN n ELSE Len(s))

\* std::string::String::from_utf8 succeeds
RECURSIVE Utf8Valid(_)
Utf8Valid(s) ==
  IF s = << >> THEN TRUE
  ELSE LET b == s[1]
           Cont(i, lo, hi) == i <= Len(s) /\ s[i] >= lo /\ s[i] <= hi
           Rest(k) == Utf8Valid(SubSeq(s, k + 1, Len(s)))
       IN  IF b < 128 THEN Rest(1)
           ELSE IF b >= 194 /\ b <= 223 THEN Cont(2, 128, 191) /\ Rest(2)
           ELSE IF b = 224 THEN Cont(2, 160, 191) /\ Cont(3, 128, 191) /\ Rest(3)
           ELSE IF b = 237 THEN Cont(2, 128, 159) /\ Cont(3, 128, 191) /\ Rest(3)
           ELSE IF b >= 225 /\ b <= 239
                THEN Cont(2, 128, 191) /\ Cont(3, 128, 191) /\ Rest(3)
           ELSE IF b = 240
                THEN Cont(2, 144, 191) /\ Cont(3, 128, 191) /\ Cont(4, 128, 191)
                     /\ Rest(4)
           ELSE IF b >= 241 /\ b <= 243
                THEN Cont(2, 128, 191) /\ Cont(3, 128, 191) /\ Cont(4, 128, 191)
                     /\ Rest(4)
           ELSE IF b = 244
                THEN Cont(2, 128, 143) /\ Cont(3, 128, 191) /\ Cont(4, 128, 191)
                     /\ Rest(4)
           ELSE FALSE

\* Ipv4Addr::to_string: the four octets in decimal, joined by '.'
Ipv4String(ip) ==
  DecimalString(ip[1]) \o << 46 >> \o DecimalString(ip[2]) \o << 46 >>
    \o DecimalString(ip[3]) \o << 46 >> \o DecimalString(ip[4])

\* the eight 16-bit segments of sixteen octets, big endian
Segments(ip) == [ i \in 1..8 |-> ip[2 * i - 1] * 256 + ip[2 * i] ]

RECURSIVE JoinHex(_)
JoinHex(segs) ==
  IF segs = << >> THEN << >>
  ELSE IF Len(segs) = 1 THEN HexString(segs[1])
  ELSE HexString(segs[1]) \o << 58 >> \o JoinHex(Tail(segs))

\* length of the run of zero segments starting at i
RECURSIVE ZeroRun(_, _)
ZeroRun(segs, i) ==
  IF i > Len(segs) \/ segs[i] # 0 THEN 0 ELSE 1 + ZeroRun(segs, i + 1)

\* Ipv6Addr::to_string: "::", "::1", an embedded IPv4 address, or the
\* segments in hexadecimal with the leftmost longest run of two or more
\* zero segments written "::"
Ipv6String(ip) ==
  LET segs == Segments(ip)
      v4 == << ip[13], ip[14], ip[15], ip[16] >>
      best == CHOOSE i \in 1..8 :
                /\ \A j \in 1..8 : ZeroRun(segs, j) <= ZeroRun(segs, i)
                /\ \A j \in 1..(i - 1) : ZeroRun(segs, j) < ZeroRun(segs, i)
      run == ZeroRun(segs, best)
  IN  IF \A i \in 1..8 : segs[i] = 0 THEN << 58, 58 >>
      ELSE IF (\A i \in 1..7 : segs[i] = 0) /\ segs[8] = 1 THEN << 58, 58, 49 >>
      ELSE IF (\A i \in 1..5 : segs[i] = 0) /\ segs[6] = 0
           THEN << 58, 58 >> \o Ipv4String(v4)
      ELSE IF (\A i \in 1..5 : segs[i] = 0) /\ segs[6] = 65535
           THEN << 58, 58, 102, 102, 102, 102, 58 >> \o Ipv4String(v4)
      ELSE IF run > 1
           THEN JoinHex(SubSeq(segs, 1, best - 1)) \o << 58, 58 >>
                  \o JoinHex(SubSeq(segs, best + run, 8))
      ELSE JoinHex(segs)

(***************************************************************************)
(* Buffers (bytes::BytesMut).                                              *)
(***************************************************************************)
BufferNew == [ len |-> BufferInit, data |-> << >> ]

\* the bytes of the buffer, padding written out
Content(buffer) == buffer.data \o Zeros(buffer.len - Len(buffer.data))

\* BytesMut::resize(n, 0)
Resize(buffer, n) ==
  [ len |-> n, data |-> Take(buffer.data, n) ]

\* the first n bytes of the buffer (n <= len)
Prefix(buffer, n) ==
  IF n <= Len(buffer.data) THEN Take(buffer.data, n)
  ELSE buffer.data \o Zeros(n - Len(buffer.data))

\* buffer[i], defined for i < len only
InRange(buffer, i) == i >= 0 /\ i < buffer.len

At(buffer, i) == IF i < Len(buffer.data) THEN buffer.data[i + 1] ELSE 0

\* the length to which the read loops have grown a buffer of length len
\* once size bytes are in it
RECURSIVE GrownLen(_, _)
GrownLen(len, size) ==
  IF size < len THEN len ELSE GrownLen(len + BufferGrow, size)

\* bytes appended at the end of the buffer (put_u8, extend)
Extend(buffer, bytes) ==
  [ len |-> buffer.len + Len(bytes), data |-> Content(buffer) \o bytes ]

(***************************************************************************)
(* Outcomes of the environment.                                            *)
(***************************************************************************)
\* the resolver's answer to lookup_ip: "ok" with the first address, "err"
\* (Err) or "empty" (no record)
NoDns == [ kind |-> "none", ip |-> << >> ]

\* One outcome of the environment, for a drain of a socket or for a write.
\* A drain: the bytes read, then WouldBlock ("data"), Ok(0) ("eof") or
\* another error ("err"); the read loops retry Interrupted.  With it come
\* the outcomes of what the same step asks of the environment: dns (the
\* resolver), peer (stream.peer_addr() succeeds) and checks (the build
\* checks arithmetic overflow).
\* A write: Ok(n) ("ok"), "would_block", "interrupted" or "err".
Outcome(kind, bytes, n, dns, peer, checks) ==
  [ kind |-> kind, bytes |-> bytes, n |-> n, dns |-> dns, peer |-> peer,
    checks |-> checks ]

NoIO == Outcome("none", << >>, 0, NoDns, TRUE, FALSE)

Drain(kind, bytes) == Outcome(kind, bytes, Len(bytes), NoDns, TRUE, FALSE)

WriteOk(n) == Outcome("ok", << >>, n, NoDns, TRUE, FALSE)

WriteKind(kind) == Outcome(kind, << >>, 0, NoDns, TRUE, FALSE)

(***************************************************************************)
(* Result of a function returning io::Result<bool>: the object after the   *)
(* call and "false" (Ok(false)), "true" (Ok(true)), "err" (Err) or "panic" *)
(* (the thread panicked: index out of range, unwrap of None or Err,        *)
(* arithmetic overflow in a build with overflow checks).                   *)
(***************************************************************************)
Res(o, ret) == [ o |-> o, ret |-> ret ]

(***************************************************************************)
(* datatype.rs: Target                                                     *)
(***************************************************************************)
TargetNew ==
  [ addr |-> [ ip |-> << 0, 0, 0, 0 >>, port |-> 8080 ],
    ip |-> << >>, port |-> 8080, domain |-> << >> ]

(***************************************************************************)
(* http/client.rs: HttpClient.  token, registered, trace, sent and early   *)
(* are not fields of the struct: token and registered are what the poll    *)
(* registry holds for the stream, trace lists the values given to state,   *)
(* sent the bytes the upstream socket has accepted, early the bytes that   *)
(* connection_response has read past the end of the response header.       *)
(***************************************************************************)
HttpClientNew(target) ==
  [ target |-> target, stream |-> FALSE, registered |-> FALSE, token |-> 0,
    buffer |-> BufferNew, size |-> 0, state |-> "ConnectionRequest",
    trace |-> << "ConnectionRequest" >>, sent |-> << >>, early |-> << >> ]

ClientSetState(c, state) ==
  [ c EXCEPT !.state = state, !.trace = Append(@, state) ]

ClientClearBuffer(c) == [ c EXCEPT !.buffer = BufferNew, !.size = 0 ]

\* clears the buffer and leaves size as it is
ClientResetBuffer(c) == [ c EXCEPT !.buffer = Resize(@, 0) ]

\* a copy of the buffer that leaves size as it is
CloneBufferOnly(c, source) == [ c EXCEPT !.buffer = source ]

CloneBuffer(c, source) ==
  [ c EXCEPT !.buffer = source, !.size = source.len ]

PutBuff(c, value) ==
  [ c EXCEPT !.buffer = Extend(@, value), !.size = @ + Len(value) ]

\* a connect that answers Ok(false) when the connect is refused
ConnectHidingRefusal(c, token, how) ==
  IF c.stream
  THEN Res([ c EXCEPT !.registered = (how = "ok"), !.token = token ],
           IF how = "ok" THEN "false" ELSE "err")
  ELSE CASE how = "ok" ->
              Res([ c EXCEPT !.stream = TRUE, !.registered = TRUE,
                             !.token = token ], "false")
         [] how = "refused" -> Res(c, "false")
         [] how = "nodelay_err" -> Res(c, "err")
         [] OTHER -> Res([ c EXCEPT !.stream = TRUE, !.token = token ], "err")

\* connect: "ok", or the connect is refused ("refused": Ok(true)), or
\* set_nodelay ("nodelay_err") or register ("register_err") fails with Err
Connect(c, token, how) ==
  IF c.stream
  THEN Res([ c EXCEPT !.registered = (how = "ok"), !.token = token ],
           IF how = "ok" THEN "false" ELSE "err")
  ELSE CASE how = "ok" ->
              Res([ c EXCEPT !.stream = TRUE, !.registered = TRUE,
                             !.token = token ], "false")
         [] how = "refused" -> Res(c, "true")
         [] how = "nodelay_err" -> Res(c, "err")
         [] OTHER -> Res([ c EXCEPT !.stream = TRUE, !.token = token ], "err")

ReadBuffer(c, rd) ==
  IF ~c.stream THEN Res(c, "panic")
  ELSE LET size == c.size + rd.n
           grown == [ len |-> GrownLen(c.buffer.len, size),
                      data |-> Prefix(c.buffer, c.size) \o rd.bytes ]
           c1 == [ c EXCEPT !.size = size, !.buffer = grown ]
       IN  CASE rd.kind = "eof" -> Res(ClientSetState(c1, "Closed"), "true")
             [] rd.kind = "err" -> Res(c1, "err")
             [] OTHER ->
                  Res(IF c1.size # c1.buffer.len
                      THEN [ c1 EXCEPT !.buffer = Resize(@, c1.size) ]
                      ELSE c1, "false")

\* every caller leaves size = buffer.len, so size - n cannot underflow
WriteBuffer(c, wr) ==
  IF ~c.stream THEN Res(c, "panic")
  ELSE CASE wr.kind = "ok" ->
              LET c1 == [ c EXCEPT !.sent = @ \o Prefix(c.buffer, wr.n) ]
              IN  IF wr.n < c.size THEN Res(c1, "err")
                  ELSE IF wr.n > c.size THEN Res(c1, "panic")
                  ELSE Res([ c1 EXCEPT !.size = @ - wr.n ], "false")
         [] wr.kind = "would_block" -> Res(c, "false")
         [] wr.kind = "interrupted" -> Res(ClientSetState(c, "Closed"), "true")
         [] OTHER -> Res(c, "err")

\* one step of result = result * 10 + (byte as u16 - 0x30) in u16; -1 when
\* the build checks overflow and the step overflows
StatusStep(result, byte, checks) ==
  LET mul == result * 10
      sub == byte - 48
      sum == (mul % U16) + (sub % U16)
  IN  IF result < 0 THEN -1
      ELSE IF checks /\ (mul >= U16 \/ sub < 0 \/ sum >= U16) THEN -1
      ELSE sum % U16

\* the status code, -1 for a panic, -2 for Err(UnexpectedEof)
ExtractStatuscode(c, checks) ==
  IF c.size < 12 THEN -2
  ELSE IF ~InRange(c.buffer, 11) THEN -1
  ELSE StatusStep(StatusStep(StatusStep(0, At(c.buffer, 9), checks),
                             At(c.buffer, 10), checks),
                  At(c.buffer, 11), checks)

(***************************************************************************)
(* http/client_protocol.rs                                                 *)
(***************************************************************************)
ConnectPrefix == << 67, 79, 78, 78, 69, 67, 84, 32 >>

ConnectMiddle ==
  << 32, 72, 84, 84, 80, 47, 49, 46, 49, 13, 10, 80, 114, 111, 120, 121, 45,
     67, 111, 110, 110, 101, 99, 116, 105, 111, 110, 58, 32, 107, 101, 101,
     112, 45, 97, 108, 105, 118, 101, 13, 10, 67, 111, 110, 110, 101, 99, 116,
     105, 111, 110, 58, 32, 107, 101, 101, 112, 45, 97, 108, 105, 118, 101,
     13, 10, 72, 111, 115, 116, 58, 32 >>

ConnectSuffix == << 13, 10, 13, 10 >>

\* the CONNECT message with the resolved address in the place of the host
ConnectMessageResolved(target) ==
  LET hostport == target.ip \o << 58 >> \o DecimalString(target.port)
  IN  ConnectPrefix \o hostport \o ConnectMiddle \o hostport \o ConnectSuffix

\* format!("CONNECT {host}:{port} HTTP/1.1\r\n...Host: {host}:{port}\r\n\r\n")
ConnectMessage(target) ==
  LET hostport == target.domain \o << 58 >> \o DecimalString(target.port)
  IN  ConnectPrefix \o hostport \o ConnectMiddle \o hostport \o ConnectSuffix

ClientConnectionRequest(c, wr) ==
  LET r == WriteBuffer(PutBuff(ClientResetBuffer(c), ConnectMessage(c.target)),
                       wr)
  IN  IF r.ret = "panic" THEN r
      ELSE Res(ClientSetState(r.o, "ConnectionEstablished"), r.ret)

\* the bytes after the first empty line (CR LF CR LF) of bytes
RECURSIVE AfterHeader(_)
AfterHeader(bytes) ==
  IF Len(bytes) < 4 THEN << >>
  ELSE IF SubSeq(bytes, 1, 4) = << 13, 10, 13, 10 >>
       THEN SubSeq(bytes, 5, Len(bytes))
  ELSE AfterHeader(Tail(bytes))

ClientConnectionResponse(c, rd) ==
  LET r0 == ReadBuffer(ClientClearBuffer(c), rd)
      r == Res([ r0.o EXCEPT !.early = AfterHeader(rd.bytes) ], r0.ret)
      code == ExtractStatuscode(r.o, rd.checks)
  IN  IF r.ret # "false" THEN r
      ELSE IF r.o.size = 0 THEN Res(r.o, "true")
      ELSE IF code = -2 THEN Res(r.o, "err")
      ELSE IF code = -1 THEN Res(r.o, "panic")
      ELSE IF code # 200 THEN Res(r.o, "true")
      ELSE Res(ClientSetState(r.o, "RelayingOUT"), "false")

\* receive from the HTTP proxy
ClientRelayIn(c, rd) ==
  LET r == ReadBuffer(ClientClearBuffer(c), rd)
  IN  IF r.ret # "false" THEN r
      ELSE Res(ClientSetState(r.o, "RelayingOUT"), "false")

\* send to the HTTP proxy
ClientRelayOut(c, wr) ==
  IF c.size = 0 THEN Res(c, "true")
  ELSE WriteBuffer(ClientSetState(c, "RelayingIN"), wr)

\* HttpClient::handle(event, None): the handler never passes a payload, so
\* value.unwrap() in state RelayingOUT panics
ClientHandle(c, rd, wr) ==
  LET q == ClientRelayIn(c, rd)
      r == CASE c.state = "ConnectionRequest" -> ClientConnectionRequest(c, wr)
             [] c.state = "ConnectionEstablished" ->
                  ClientConnectionResponse(c, rd)
             [] c.state = "RelayingOUT" -> Res(c, "panic")
             [] OTHER -> Res(c, "false")
  IN  IF c.state = "RelayingIN"
      THEN IF q.ret \in { "err", "panic" } THEN q
           ELSE IF q.o.size = 0 /\ q.ret = "true" THEN q
           ELSE Res(q.o, "false")
      ELSE IF r.ret = "err" THEN Res(r.o, "true") ELSE r

(***************************************************************************)
(* socks/handler.rs: Socks5Handler.  trace, sent, request, recv, upRecv    *)
(* and calls are not fields of the struct: trace lists the values given to *)
(* state, sent the bytes the inbound socket has accepted, request the      *)
(* bytes connection_request has read, recv the bytes read from the inbound *)
(* socket in state Relaying, upRecv the bytes the relay has read from      *)
(* upstream, calls the protocol functions the running call of handle has   *)
(* made, each with the outcome it met and the state it left.               *)
(***************************************************************************)
Socks5HandlerNew(token) ==
  [ token |-> token, buffer |-> BufferNew, size |-> 0, target |-> TargetNew,
    state |-> "MethodRequest", client |-> << >>,
    trace |-> << "MethodRequest" >>, sent |-> << >>, request |-> << >>,
    recv |-> << >>, upRecv |-> << >>, calls |-> << >> ]

SetState(h, state) ==
  [ h EXCEPT !.state = state, !.trace = Append(@, state) ]

SetTarget(h, value) == [ h EXCEPT !.target = value ]

PutBuffer(h, value) ==
  [ h EXCEPT !.size = @ + 1, !.buffer = Extend(@, << value >>) ]

ClearBuffer(h) == [ h EXCEPT !.buffer = BufferNew, !.size = 0 ]

ResetBuffer(h) == [ h EXCEPT !.buffer = Resize(@, 0), !.size = 0 ]

\* the bytes extract_buffer copies: buffer[start .. start + n)
ExtractBuffer(h, n, start) == [ i \in 1..n |-> At(h.buffer, start + i - 1) ]

ReadStream(h, rd) ==
  LET size == h.size + rd.n
      grown == [ len |-> GrownLen(h.buffer.len, size),
                 data |-> Prefix(h.buffer, h.size) \o rd.bytes ]
      h1 == [ h EXCEPT !.size = size, !.buffer = grown ]
  IN  CASE rd.kind = "eof" -> Res(SetState(h1, "Closed"), "true")
        [] rd.kind = "err" -> Res(h1, "err")
        [] OTHER ->
             Res(IF h1.size # h1.buffer.len
                 THEN [ h1 EXCEPT !.buffer = Resize(@, h1.size) ]
                 ELSE h1, "false")

WriteStream(h, wr) ==
  CASE wr.kind = "ok" ->
         Res([ h EXCEPT !.sent = @ \o Prefix(h.buffer, wr.n) ],
             IF wr.n < h.size THEN "err" ELSE "false")
    [] wr.kind = "would_block" -> Res(h, "false")
    [] wr.kind = "interrupted" -> Res(SetState(h, "Closed"), "true")
    [] OTHER -> Res(h, "err")

\* size <= buffer.len in the handler and in its client
Fits(h) ==
  /\ h.size <= h.buffer.len
  /\ h.client # << >> => h.client[1].size <= h.client[1].buffer.len

\* the call is noted with the outcome it met, what it returned, the state it
\* left, the bytes the inbound socket has accepted by then and whether the
\* sizes are within the buffers
Note(r, fn, rd, wr) ==
  Res([ r.o EXCEPT !.calls =
          Append(@, [ fn |-> fn, rd |-> rd, wr |-> wr, ret |-> r.ret,
                      state |-> r.o.state, sent |-> r.o.sent,
                      cstate |-> IF r.o.client = << >> THEN "none"
                                 ELSE r.o.client[1].state,
                      fits |-> Fits(r.o) ]) ],
      r.ret)

(***************************************************************************)
(* socks/server_protocol.rs                                                *)
(***************************************************************************)
\* method_request without the comparison of the size with 2 + nmethod
MethodRequestAnyLength(h, rd) ==
  LET r == ReadStream(ClearBuffer(h), rd)
      g == r.o
      version == At(g.buffer, 0)
      nmethod == At(g.buffer, 1)
      last_method == IF 2 + nmethod < g.buffer.len THEN 1 + nmethod
                     ELSE g.buffer.len - 1
      support_no_auth == \E i \in 2..last_method : At(g.buffer, i) = 0
  IN  IF r.ret # "false" THEN r
      ELSE IF g.size < 3 THEN Res(SetState(g, "Closed"), "true")
      ELSE IF version # 5 THEN Res(SetState(g, "Closed"), "true")
      ELSE IF ~support_no_auth THEN Res(SetState(g, "Closed"), "true")
      ELSE Res(SetState(g, "MethodResponse"), "false")

MethodRequest(h, rd) ==
  LET r == ReadStream(ClearBuffer(h), rd)
      g == r.o
      version == At(g.buffer, 0)
      nmethod == At(g.buffer, 1)
      last_method == IF 2 + nmethod < g.buffer.len THEN 1 + nmethod
                     ELSE g.buffer.len - 1
      support_no_auth == \E i \in 2..last_method : At(g.buffer, i) = 0
  IN  IF r.ret # "false" THEN r
      ELSE IF g.size < 3 THEN Res(SetState(g, "Closed"), "true")
      ELSE IF version # 5 THEN Res(SetState(g, "Closed"), "true")
      ELSE IF g.size # 2 + nmethod THEN Res(SetState(g, "Closed"), "true")
      ELSE IF ~support_no_auth THEN Res(SetState(g, "Closed"), "true")
      ELSE Res(SetState(g, "MethodResponse"), "false")

MethodResponse(h, wr) ==
  LET r == WriteStream(PutBuffer(PutBuffer(ResetBuffer(h), 5), 0), wr)
  IN  Res(SetState(r.o, "ConnectionRequest"), r.ret)

\* connection_request once read_stream has returned r
ParseRequest(r, rd) ==
  LET g == r.o
      buffer_len == g.size
      version == At(g.buffer, 0)
      cmd == At(g.buffer, 1)
      rsv == At(g.buffer, 2)
      atyp == At(g.buffer, 3)
      closed == Res(SetState(g, "Closed"), "true")
      Port(i) == At(g.buffer, i) * 256 + At(g.buffer, i + 1)
      Parsed(target) ==
        IF ~rd.peer THEN Res(g, "panic")
        ELSE Res(SetState(SetTarget(g, target), "ClientConnectionRequest"),
                 "false")
      ip4 == ExtractBuffer(g, 4, 4)
      ip6 == ExtractBuffer(g, 16, 4)
      domain_len == At(g.buffer, 4)
      domain == ExtractBuffer(g, domain_len, 5)
  IN  IF r.ret # "false" THEN r
      ELSE IF ~InRange(g.buffer, 3) THEN Res(g, "panic")
      ELSE IF version # 5 THEN closed
      ELSE IF cmd # 1 THEN closed
      ELSE IF rsv # 0 THEN closed
      ELSE CASE atyp = 1 ->
                  IF buffer_len < 10 THEN closed
                  ELSE Parsed([ addr |-> [ ip |-> ip4, port |-> Port(8) ],
                                ip |-> Ipv4String(ip4), port |-> Port(8),
                                domain |-> Ipv4String(ip4) ])
             [] atyp = 4 ->
                  IF buffer_len < 22 THEN closed
                  ELSE Parsed([ addr |-> [ ip |-> ip6, port |-> Port(20) ],
                                ip |-> Ipv6String(ip6), port |-> Port(20),
                                domain |-> Ipv6String(ip6) ])
             [] atyp = 3 ->
                  IF buffer_len < 8 THEN closed
                  ELSE IF domain_len > 0
                          /\ ~InRange(g.buffer, 5 + domain_len - 1)
                       THEN Res(g, "panic")
                  ELSE IF ~Utf8Valid(domain) THEN closed
                  ELSE IF rd.dns.kind # "ok" THEN closed
                  ELSE Parsed([ addr |-> [ ip |-> rd.dns.ip,
                                           port |-> Port(buffer_len - 2) ],
                                ip |-> IF Len(rd.dns.ip) = 4
                                       THEN Ipv4String(rd.dns.ip)
                                       ELSE Ipv6String(rd.dns.ip),
                                port |-> Port(buffer_len - 2),
                                domain |-> domain ])
             [] OTHER -> closed

ConnectionRequest(h, rd) ==
  ParseRequest(ReadStream(ClearBuffer([ h EXCEPT !.request = rd.bytes ]), rd),
               rd)

SuccessReply == << 5, 0, 0, 1, 0, 0, 0, 0, 0, 0 >>

RECURSIVE PutAll(_, _)
PutAll(h, bytes) ==
  IF bytes = << >> THEN h ELSE PutAll(PutBuffer(h, Head(bytes)), Tail(bytes))

ConnectionResponse(h, wr) ==
  LET r == WriteStream(PutAll(ResetBuffer(h), SuccessReply), wr)
  IN  Res(SetState(r.o, "Relaying"), r.ret)

\* client -> upstream
RelayIn(h, rd, wr) ==
  LET r == ReadStream(ClearBuffer(h), rd)
      g == [ r.o EXCEPT !.recv = @ \o rd.bytes ]
      w == WriteBuffer(CloneBuffer(ClientResetBuffer(g.client[1]), g.buffer),
                       wr)
  IN  IF r.ret # "false" THEN Res(g, r.ret)
      ELSE IF g.client = << >> THEN Res(g, "panic")
      ELSE Res([ g EXCEPT !.client[1] = w.o ], w.ret)

\* upstream -> client
RelayOut(h, rd, wr) ==
  LET h1 == ResetBuffer(h)
      r == ReadBuffer(ClientClearBuffer(h1.client[1]), rd)
      g == [ h1 EXCEPT !.client[1] = r.o, !.upRecv = @ \o rd.bytes ]
  IN  IF h1.client = << >> THEN Res(h1, "panic")
      ELSE IF r.ret # "false" THEN Res(g, r.ret)
      ELSE IF r.o.size = 0 THEN Res(g, "false")
      ELSE WriteStream([ g EXCEPT !.buffer = r.o.buffer ], wr)

(***************************************************************************)
(* socks/handler.rs: Socks5Handler::handle, in the three parts it is made  *)
(* of.  A part yields the handler, whether handle has returned (fin) and   *)
(* with what (ret), the token counter and the child table.                 *)
(***************************************************************************)
Going(h, ut, sub) ==
  [ o |-> h, ret |-> "false", fin |-> FALSE, ut |-> ut, sub |-> sub ]

\* match result { Ok(true) | Err(_) => return Ok(true), _ => {} }
Matched(r, ut, sub) ==
  [ o |-> r.o, ret |-> IF r.ret = "err" THEN "true" ELSE r.ret,
    fin |-> r.ret # "false", ut |-> ut, sub |-> sub ]

\* return relay_out(self) / return relay_in(self)
Returned(r, ut, sub) ==
  [ o |-> r.o, ret |-> r.ret, fin |-> TRUE, ut |-> ut, sub |-> sub ]

\* FnvHashMap::insert
MapInsert(map, k, v) ==
  [ x \in DOMAIN map \cup { k } |-> IF x = k THEN v ELSE map[x] ]

\* FnvHashMap::remove
MapRemove(map, k) == [ x \in DOMAIN map \ { k } |-> map[x] ]

\* the arm of state ConnectionRequest in the readable part, once
\* connection_request has returned hr
Spawned(h, hr, ut, sub, conn) ==
  LET cr == Connect(HttpClientNew(hr.o.target), ut, conn)
      h1 == [ hr.o EXCEPT !.client = Append(@, cr.o) ]
      done == cr.ret # "false" \/ hr.ret # "false"
  IN  IF hr.ret = "panic" THEN Matched(hr, ut, sub)
      ELSE [ o |-> h1, ret |-> IF done THEN "true" ELSE "false",
             fin |-> done, ut |-> ut + 1,
             sub |-> MapInsert(sub, ut, h.token) ]

SpawnClient(h, ut, sub, rd, conn) ==
  Spawned(h, Note(ConnectionRequest(h, rd), "connection_request", rd, NoIO),
          ut, sub, conn)

\* client.handle(event, None) on the child at index 0
Delegate(h, rd, wr, ut, sub) ==
  LET r == ClientHandle(h.client[1], rd, wr)
  IN  IF h.client = << >> THEN Matched(Res(h, "panic"), ut, sub)
      ELSE Matched(Note(Res([ h EXCEPT !.client[1] = r.o ], r.ret),
                        "client.handle", rd, wr),
                   ut, sub)

ReadablePart(h, readable, token, ut, sub, rd, conn) ==
  IF ~readable THEN Going(h, ut, sub)
  ELSE CASE h.state = "MethodRequest" /\ token = h.token ->
              Matched(Note(MethodRequest(h, rd), "method_request", rd, NoIO),
                      ut, sub)
         [] h.state = "ConnectionRequest" /\ token = h.token ->
              SpawnClient(h, ut, sub, rd, conn)
         [] h.state = "ClientConnectionResponse" ->
              Delegate(SetState(h, "ConnectionResponse"), rd, NoIO, ut, sub)
         [] OTHER -> Going(h, ut, sub)

WritablePart(f, writable, wr) ==
  IF f.fin \/ ~writable THEN f
  ELSE CASE f.o.state = "MethodResponse" ->
              Matched(Note(MethodResponse(f.o, wr), "method_response", NoIO,
                           wr), f.ut, f.sub)
         [] f.o.state = "ClientConnectionRequest" ->
              Delegate(SetState(f.o, "ClientConnectionResponse"), NoIO, wr,
                       f.ut, f.sub)
         [] f.o.state = "ConnectionResponse" ->
              Matched(Note(ConnectionResponse(f.o, wr), "connection_response",
                           NoIO, wr), f.ut, f.sub)
         [] OTHER -> f

RelayPart(f, token, rd, wr) ==
  IF f.fin THEN f
  ELSE IF f.o.state = "Relaying"
  THEN IF token # f.o.token
       THEN Returned(Note(RelayOut(f.o, rd, wr), "relay_out", rd, wr), f.ut,
                     f.sub)
       ELSE Returned(Note(RelayIn(f.o, rd, wr), "relay_in", rd, wr), f.ut,
                     f.sub)
  ELSE Returned(Res(f.o, "false"), f.ut, f.sub)


(***************************************************************************)
(* What the environment may do: the frames a peer sends, the outcomes of   *)
(* the system calls.  An environment is a record of the sets the steps of  *)
(* the server draw from; a specification is the server under one           *)
(* environment.                                                            *)
(***************************************************************************)
Ipv4Request == << 5, 1, 0, 1, 127, 0, 0, 1, 0, 80 >>

Ipv6Request ==
  << 5, 1, 0, 4, 32, 1, 13, 184, 0, 0, 0, 0, 0, 0, 0, 0, 0, 0, 0, 1, 1, 187 >>

\* example.com:443 is too long to enumerate; "a.b":443 stands for it
DomainRequest == << 5, 1, 0, 3, 3, 97, 46, 98, 1, 187 >>

\* "HTTP/1.1 "
StatusLinePrefix == << 72, 84, 84, 80, 47, 49, 46, 49, 32 >>

\* " OK\r\n\r\n"
StatusLineSuffix == << 32, 79, 75, 13, 10, 13, 10 >>

Response(status) == StatusLinePrefix \o status \o StatusLineSuffix

\* "200" and "407"
Status200 == << 50, 48, 48 >>

Status407 == << 52, 48, 55 >>

\* a drain that reads a response; on a byte below '0' the subtraction
\* overflows, which a build either checks or does not
ResponseDrains(statuses) ==
  UNION { { Outcome("data", Response(st), Len(Response(st)), NoDns, TRUE, ck) :
              ck \in { x \in BOOLEAN : x => \E i \in 1..3 : st[i] < 48 } } :
          st \in statuses }

\* all byte strings over alphabet of length 0..n
RECURSIVE Strings(_, _)
Strings(alphabet, n) ==
  IF n = 0 THEN { << >> }
  ELSE LET shorter == Strings(alphabet, n - 1)
       IN  shorter \cup { Append(s, b) : s \in shorter, b \in alphabet }

\* an event reports that the socket is readable, writable or both
NoEvent == [ readable |-> FALSE, writable |-> FALSE ]

Events == [ readable : BOOLEAN, writable : BOOLEAN ] \ { NoEvent }

\* Several sessions, each with peers that say little: a good and a bad
\* frame at each step of the handshake, one payload, writes that are
\* complete, interrupted or fail.
ServerResponses ==
  ResponseDrains({ Status200, Status407 }) \cup { Drain("eof", << >>) }

ServerEnv ==
  [ maxToken |-> MaxToken, maxLive |-> MaxLive, maxAccept |-> MaxAccept,
    maxRelay |-> MaxRelay,
    methods |-> { Drain("data", << 5, 1, 0 >>), Drain("data", << 4, 1, 0 >>),
                  Drain("eof", << >>) },
    requests |-> { Drain("data", Ipv4Request),
                   Drain("data", << 5, 2, 0, 1, 127, 0, 0, 1, 0, 80 >>),
                   Drain("err", << >>) },
    connects |-> { "ok", "refused" },
    responses |-> ServerResponses,
    unasked |-> ServerResponses,
    payloads |-> { << 7 >> },
    shortfalls |-> { 0 },
    failures |-> { "interrupted", "err" },
    connecting |-> { } ]

\* what the resolver may answer
DnsOutcomes ==
  { [ kind |-> "ok", ip |-> << 93, 184, 216, 34 >> ],
    [ kind |-> "err", ip |-> << >> ], [ kind |-> "empty", ip |-> << >> ] }

\* requests the resolver is not asked about: well formed, with a field that
\* is refused, and cut short
PlainRequests ==
  { Ipv4Request, Ipv6Request,
    << 4, 1, 0, 1, 127, 0, 0, 1, 0, 80 >>,
    << 5, 2, 0, 1, 127, 0, 0, 1, 0, 80 >>,
    << 5, 1, 1, 1, 127, 0, 0, 1, 0, 80 >>,
    << 5, 1, 0, 2, 127, 0, 0, 1, 0, 80 >>,
    SubSeq(Ipv4Request, 1, 9), SubSeq(Ipv6Request, 1, 21),
    SubSeq(Ipv4Request, 1, 3), << 4, 1, 0 >>, << >>,
    SubSeq(DomainRequest, 1, 7),
    << 5, 1, 0, 3, 9, 97, 46, 98, 1, 187 >>,
    << 5, 1, 0, 3, 1, 255, 1, 187 >> }

\* the octets of the method frames: a version that is not 5, the counts 1
\* and 2, the methods 0 and 2, and 5
FrameOctets == { 0, 1, 2, 5 }

\* One session at a time, with peers that say anything: every method frame
\* over FrameOctets, requests of every address type, whole and cut short,
\* responses whose status is or is not a number, and every outcome of a
\* write.
\* every method frame over FrameOctets
SessionMethods ==
  { Drain("data", f) : f \in Strings(FrameOctets, MaxFrameLen) }
    \cup { Drain("eof", << >>), Drain("err", << >>) }

\* requests of every address type, whole and cut short; a domain with each
\* answer of the resolver; a request from a peer whose address is gone
SessionRequests ==
  { Drain("data", f) : f \in PlainRequests }
    \cup { Outcome("data", DomainRequest, Len(DomainRequest), d, TRUE, FALSE) :
             d \in DnsOutcomes }
    \cup { Outcome("data", Ipv4Request, Len(Ipv4Request), NoDns, FALSE,
                   FALSE) }
    \cup { Drain("eof", << >>), Drain("err", << >>) }

\* responses whose status is or is not a number, and one cut short
SessionResponses ==
  ResponseDrains({ Status200, Status407, << 49, 58, 48 >>, << 50, 47, 58 >> })
    \cup { Drain("data", SubSeq(Response(Status200), 1, 11)),
           Drain("data", << >>), Drain("eof", << >>), Drain("err", << >>) }

SessionEnv ==
  [ maxToken |-> MaxSessionToken, maxLive |-> 1, maxAccept |-> 1,
    maxRelay |-> MaxRelay,
    methods |-> SessionMethods,
    requests |-> SessionRequests,
    connects |-> { "ok", "refused", "nodelay_err", "register_err" },
    responses |-> SessionResponses,
    unasked |-> SessionResponses,
    payloads |-> { << >>, << 7 >> },
    shortfalls |-> { 0, 1 },
    failures |-> { "would_block", "interrupted", "err" },
    connecting |-> { } ]

\* One session after another, each with peers that complete the handshake:
\* the tunnel is followed through bursts of payload in each direction,
\* with writes that are complete or would block, and with a response that
\* brings the first byte of the tunnel in the same read.
TunnelResponses ==
  { Drain("data", Response(Status200)),
    Drain("data", Response(Status200) \o << 9 >>) }

TunnelEnv ==
  [ maxToken |-> MaxTunnelToken, maxLive |-> 1, maxAccept |-> 1,
    maxRelay |-> MaxTunnelRelay,
    methods |-> { Drain("data", << 5, 1, 0 >>) },
    requests |-> { Drain("data", Ipv4Request) },
    connects |-> { "ok" },
    responses |-> TunnelResponses,
    unasked |-> TunnelResponses,
    payloads |-> { << 7 >> },
    shortfalls |-> { 0 },
    failures |-> { "would_block" },
    connecting |-> { } ]

\* One session whose peers do everything right: a valid method frame, a
\* valid IPv4 request, a connect that succeeds and a 200 response; every
\* write is taken whole.  The connect of the upstream socket is
\* non-blocking: until the socket has reported itself writable (an event
\* naming the child token) a write to it may find the connect in progress
\* and return WouldBlock.  The upstream answers the request it has
\* received: while it has received nothing a read of its socket finds
\* nothing.
HappyEnv ==
  [ maxToken |-> MaxHappyToken, maxLive |-> 1, maxAccept |-> 1,
    maxRelay |-> MaxRelay,
    methods |-> { Drain("data", << 5, 1, 0 >>) },
    requests |-> { Drain("data", Ipv4Request) },
    connects |-> { "ok" },
    responses |-> { Drain("data", Response(Status200)) },
    unasked |-> { Drain("data", << >>) },
    payloads |-> { << 7 >> },
    shortfalls |-> { 0 },
    failures |-> { },
    connecting |-> { "would_block" } ]

\* the drains of a relay step that keep the bytes read within maxRelay
RelayDrains(env, seen) ==
  { Drain("data", b) :
      b \in { x \in env.payloads : Len(seen) + Len(x) <= env.maxRelay } }
    \cup { Drain("eof", << >>), Drain("err", << >>) }

\* one write of a buffer of len bytes
WriteOutcomes(env, len) ==
  { WriteOk(len - d) : d \in { x \in env.shortfalls : x <= len } }
    \cup { WriteKind(k) : k \in env.failures }

(***************************************************************************)
(* socks/server.rs: the state of Socks5Server::serve.                      *)
(*   status       "running", or how serve ended: "poll_error" and          *)
(*                "accept_error" (Err from poll or from the accept path),  *)
(*                "session_error" (Err from handle), "panic"               *)
(*   slab         Slab<Socks5Handler>: entries and the next vacant key     *)
(*   handler_map  token -> slab key                                        *)
(*   subtoken     child token -> parent token                              *)
(*   unique_token the token counter                                        *)
(*   pending      the tokens of the event batch not yet dispatched         *)
(*   last         what the last step of the loop did                       *)
(*   peers        the peers serve faces: "terse", "any", "tunnel", "happy"  *)
(***************************************************************************)
VARIABLES status, slab, handler_map, subtoken, unique_token, pending, last,
          peers

vars ==
  << status, slab, handler_map, subtoken, unique_token, pending, last, peers >>

NoHandler == Socks5HandlerNew(SERVER)

Last(op, token, key, ev, ret, h) ==
  [ op |-> op, token |-> token, key |-> key, ev |-> ev, ret |-> ret, h |-> h ]

Idle(op, token) == Last(op, token, 0, NoEvent, "none", NoHandler)

\* slab::Slab: a vacant entry holds the key that was vacant before it
Occupied(h) == [ occupied |-> TRUE, next |-> 0, h |-> h ]

Vacant(next) == [ occupied |-> FALSE, next |-> next, h |-> NoHandler ]

SlabNew == [ entries |-> << >>, next |-> 0 ]

SlabInsert(sl, h) ==
  IF sl.next = Len(sl.entries)
  THEN [ entries |-> Append(sl.entries, Occupied(h)), next |-> sl.next + 1 ]
  ELSE [ entries |-> [ sl.entries EXCEPT ![sl.next + 1] = Occupied(h) ],
         next |-> sl.entries[sl.next + 1].next ]

SlabRemove(sl, key) ==
  [ entries |-> [ sl.entries EXCEPT ![key + 1] = Vacant(sl.next) ],
    next |-> key ]

SlabContains(sl, key) ==
  key >= 0 /\ key < Len(sl.entries) /\ sl.entries[key + 1].occupied

SlabPut(sl, key, h) ==
  [ sl EXCEPT !.entries[key + 1] = Occupied(h) ]

LiveKeys == { k \in 0..(Len(slab.entries) - 1) : SlabContains(slab, k) }

Handler(k) == slab.entries[k + 1].h

\* the tokens the poll registry holds: the listener's and those of the open
\* sockets, which are the sockets the handlers in the slab own
Registered ==
  { SERVER } \cup { Handler(k).token : k \in LiveKeys }
    \cup { Handler(k).client[1].token :
             k \in { x \in LiveKeys : /\ Handler(x).client # << >>
                                      /\ Handler(x).client[1].registered } }

Start ==
  /\ status = "running"
  /\ slab = SlabNew
  /\ handler_map = << >>
  /\ subtoken = << >>
  /\ unique_token = SERVER + 1
  /\ pending = { }
  /\ last = Idle("init", SERVER)

\* the server facing several sessions
Init == Start /\ peers = "terse"

\* the server facing one session at a time, with peers that say anything
SessionInit == Start /\ peers = "any"

\* the server facing sessions that reach the tunnel
TunnelInit == Start /\ peers = "tunnel"

\* the server facing one session whose peers do everything right
HappyInit == Start /\ peers = "happy"

\* the environment of the peers serve faces
Env ==
  CASE peers = "terse" -> ServerEnv
    [] peers = "any" -> SessionEnv
    [] peers = "tunnel" -> TunnelEnv
    [] OTHER -> HappyEnv

\* poll.poll(&mut events, None) returns a batch: any of the registered
\* tokens, each at most once, in any order
Poll ==
  /\ status = "running"
  /\ pending' = Registered
  /\ last' = Idle("poll", SERVER)
  /\ UNCHANGED << status, slab, handler_map, subtoken, unique_token, peers >>

PollError ==
  /\ status = "running"
  /\ status' = "poll_error"
  /\ last' = Idle("poll", SERVER)
  /\ UNCHANGED << slab, handler_map, subtoken, unique_token, pending, peers >>

\* an accept path that leaves the token counter where it was
AcceptedReusingToken(srv) ==
  [ slab |-> SlabInsert(srv.slab, Socks5HandlerNew(srv.unique_token)),
    handler_map |-> MapInsert(srv.handler_map, srv.unique_token, srv.slab.next),
    unique_token |-> srv.unique_token ]

\* one connection accepted: lines 62..72
Accepted(srv) ==
  [ slab |-> SlabInsert(srv.slab, Socks5HandlerNew(srv.unique_token)),
    handler_map |-> MapInsert(srv.handler_map, srv.unique_token, srv.slab.next),
    unique_token |-> srv.unique_token + 1 ]

RECURSIVE AcceptLoop(_, _)
AcceptLoop(srv, n) == IF n = 0 THEN srv ELSE AcceptLoop(Accepted(srv), n - 1)

\* the event of the listener: n connections are accepted, then accept
\* answers WouldBlock, or accept, set_nodelay or register fails
Accept ==
  /\ status = "running"
  /\ SERVER \in pending
  /\ \E n \in 0..Env.maxAccept,
        how \in { "would_block", "accept_err", "nodelay_err", "register_err" } :
       LET minted == IF how \in { "nodelay_err", "register_err" } THEN 1 ELSE 0
           srv == AcceptLoop([ slab |-> slab, handler_map |-> handler_map,
                               unique_token |-> unique_token ], n)
       IN  /\ unique_token + n + minted <= Env.maxToken
           /\ Cardinality(LiveKeys) + n <= Env.maxLive
           /\ slab' = srv.slab
           /\ handler_map' = srv.handler_map
           /\ unique_token' = srv.unique_token + minted
           /\ status' = IF how = "would_block" THEN "running"
                        ELSE "accept_error"
           /\ last' = Last("accept", SERVER, 0, NoEvent, how, NoHandler)
  /\ pending' = pending \ { SERVER }
  /\ UNCHANGED << subtoken, peers >>

\* a lookup that answers the key 0 for a token that resolves to nothing
HandlerKeyOrFirst(token) ==
  IF token \in DOMAIN handler_map THEN handler_map[token]
  ELSE IF token \in DOMAIN subtoken /\ subtoken[token] \in DOMAIN handler_map
       THEN handler_map[subtoken[token]]
  ELSE 0

\* lines 76..92: the slab key of the handler the token resolves to, -1 for
\* none
HandlerKey(token) ==
  IF token \in DOMAIN handler_map THEN handler_map[token]
  ELSE IF token \in DOMAIN subtoken /\ subtoken[token] \in DOMAIN handler_map
       THEN handler_map[subtoken[token]]
  ELSE -1

\* no handler for the token: warn and continue
DispatchUnknown ==
  /\ status = "running"
  /\ \E token \in pending \ { SERVER } :
       /\ HandlerKey(token) = -1
       /\ pending' = pending \ { token }
       /\ last' = Idle("unknown", token)
  /\ UNCHANGED << status, slab, handler_map, subtoken, unique_token, peers >>

\* the key is not in the slab: lines 96..99
DispatchVacant ==
  /\ status = "running"
  /\ \E token \in pending \ { SERVER } :
       /\ HandlerKey(token) # -1
       /\ ~SlabContains(slab, HandlerKey(token))
       /\ subtoken' = MapRemove(subtoken, token)
       /\ pending' = pending \ { token }
       /\ last' = Idle("vacant", token)
  /\ UNCHANGED << status, slab, handler_map, unique_token, peers >>

\* the outcomes the parts of handle can meet
ReadChoices(env, h, ev, token) ==
  IF ~ev.readable THEN { NoIO }
  ELSE CASE h.state = "MethodRequest" /\ token = h.token -> env.methods
         [] h.state = "ConnectionRequest" /\ token = h.token -> env.requests
         [] h.state = "ClientConnectionResponse" ->
              IF h.client # << >> /\ h.client[1].sent = << >>
              THEN env.unasked ELSE env.responses
         [] OTHER -> { NoIO }

ConnectChoices(env, h, ev, token, rd) ==
  IF /\ ev.readable
     /\ h.state = "ConnectionRequest"
     /\ token = h.token
     /\ ConnectionRequest(h, rd).ret # "panic"
  THEN env.connects
  ELSE { "none" }

WriteChoices(env, f, ev, token) ==
  IF f.fin \/ ~ev.writable THEN { NoIO }
  ELSE CASE f.o.state = "MethodResponse" -> WriteOutcomes(env, 2)
         [] f.o.state = "ClientConnectionRequest" ->
              WriteOutcomes(env, Len(ConnectMessage(f.o.client[1].target)))
                \cup { WriteKind(k) :
                         k \in IF token = f.o.token THEN env.connecting
                               ELSE { } }
         [] f.o.state = "ConnectionResponse" ->
              WriteOutcomes(env, Len(SuccessReply))
         [] OTHER -> { NoIO }

RelayReadChoices(env, f, token) ==
  IF f.fin \/ f.o.state # "Relaying" THEN { NoIO }
  ELSE IF token # f.o.token THEN RelayDrains(env, f.o.upRecv)
  ELSE RelayDrains(env, f.o.recv)

RelayWriteChoices(env, f, token, rd) ==
  IF f.fin \/ f.o.state # "Relaying" \/ rd.kind # "data" THEN { NoIO }
  ELSE IF token # f.o.token /\ rd.n = 0 THEN { NoIO }
  ELSE WriteOutcomes(env, rd.n)

\* Socks5Handler::handle: what a call can leave behind, over the outcomes
\* its parts can meet.  f is what the parts before have left.
HandleRelay(env, f, token) ==
  UNION { { RelayPart(f, token, rd, wr) :
              wr \in RelayWriteChoices(env, f, token, rd) } :
          rd \in RelayReadChoices(env, f, token) }

HandleWritable(env, f, ev, token) ==
  UNION { HandleRelay(env, WritablePart(f, ev.writable, wr), token) :
          wr \in WriteChoices(env, f, ev, token) }

Handle(env, h, ev, token, ut, sub) ==
  UNION { UNION { HandleWritable(env,
                                 ReadablePart(h, ev.readable, token, ut, sub,
                                              rd, conn),
                                 ev, token) :
                  conn \in ConnectChoices(env, h, ev, token, rd) } :
          rd \in ReadChoices(env, h, ev, token) }

\* lines 109..113
Teardown(srv, key, token) ==
  [ slab |-> SlabRemove(srv.slab, key),
    handler_map |-> MapRemove(srv.handler_map, token),
    subtoken |-> MapRemove(srv.subtoken, token) ]

\* lines 101..113: what serve does with the result f of handle
Handled(env, token, key, ev, f) ==
  LET kept == [ slab |-> SlabPut(slab, key, [ f.o EXCEPT !.calls = << >> ]),
                handler_map |-> handler_map, subtoken |-> f.sub ]
      srv == IF f.ret = "true" THEN Teardown(kept, key, token) ELSE kept
  IN  /\ f.ut <= env.maxToken
      /\ slab' = srv.slab
      /\ handler_map' = srv.handler_map
      /\ subtoken' = srv.subtoken
      /\ unique_token' = f.ut
      /\ status' = CASE f.ret = "err" -> "session_error"
                     [] f.ret = "panic" -> "panic"
                     [] OTHER -> "running"
      /\ last' = Last("handle", token, key, ev, f.ret, f.o)
      /\ pending' = pending \ { token }

\* lines 94..113: the handler is found and handle is called
DispatchHandle ==
  /\ status = "running"
  /\ \E token \in pending \ { SERVER }, ev \in Events :
       /\ HandlerKey(token) # -1
       /\ SlabContains(slab, HandlerKey(token))
       /\ \E f \in Handle(Env,
                          [ Handler(HandlerKey(token)) EXCEPT
                              !.calls = << >> ],
                          ev, token, unique_token, subtoken) :
            /\ Handled(Env, token, HandlerKey(token), ev, f)
            /\ UNCHANGED peers

Next ==
  \/ Poll
  \/ PollError
  \/ Accept
  \/ DispatchUnknown
  \/ DispatchVacant
  \/ DispatchHandle

Spec == Init /\ [][Next]_vars

SessionSpec == SessionInit /\ [][Next]_vars

TunnelSpec == TunnelInit /\ [][Next]_vars

\* serve polls again and again, and handles the event of the listener that
\* a batch holds: loop { poll.poll(..); for event in events.iter() { .. } }
HappySpec == HappyInit /\ [][Next]_vars /\ WF_vars(Poll) /\ WF_vars(Accept)

(***************************************************************************)
(* The properties.  They read the last step of the loop: the call of       *)
(* handle it made (last), the functions that call went through (calls)     *)
(* and the tables as the step left them.                                   *)
(***************************************************************************)
Calls == IF last.op = "handle" THEN last.h.calls ELSE << >>

CallsOf(fn) == { Calls[i] : i \in { j \in 1..Len(Calls) : Calls[j].fn = fn } }

\* C1: no failure of a session ends the loop of serve: whatever the reads
\* and the writes of the sessions meet, in every state of a handler, serve
\* is running unless poll or the listener has ended it.
C1_SessionFailureNeverEndsServe == status \notin { "session_error", "panic" }

\* a CONNECT request cut short: fewer than 4 bytes, or a domain name whose
\* length byte L has 5 + L > size
Truncated(bytes) ==
  \/ Len(bytes) < 4
  \/ bytes[4] = 3 /\ Len(bytes) >= 5 /\ 5 + bytes[5] > Len(bytes)

\* C2: a CONNECT request that is cut short ends its session and nothing
\* else: connection_request leaves the handler Closed and returns done, and
\* serve is still running.
C2_TruncatedRequestEndsSessionOnly ==
  \A c \in CallsOf("connection_request") :
    c.rd.kind = "data" /\ Truncated(c.rd.bytes)
      => c.ret = "true" /\ c.state = "Closed" /\ status = "running"

\* C3: when handle has returned done, on the inbound token or on the
\* child's, the step leaves the handler out of the slab, the inbound token
\* out of handler_map and the child's token out of subtoken.
C3_TeardownRemovesBothTokens ==
  last.op = "handle" /\ last.ret = "true"
    => /\ ~SlabContains(slab, last.key)
       /\ last.h.token \notin DOMAIN handler_map
       /\ \A t \in DOMAIN subtoken : subtoken[t] # last.h.token

\* C4: every handler in the slab has exactly one entry in handler_map: one
\* token maps to its key, and it is the handler's own token.
C4_OneMapEntryPerLiveHandler ==
  \A k \in LiveKeys :
    { t \in DOMAIN handler_map : handler_map[t] = k } = { Handler(k).token }

\* C5: handle is called with the handler's own token or with the token of
\* the handler's own child, never with a token of another session.
C5_HandleGetsOwnTokens ==
  last.op = "handle"
    => \/ last.token = last.h.token
       \/ last.h.client # << >> /\ last.h.client[1].token = last.token

\* C6: when handle says that the session is finished, with done or with an
\* error, the state of the handler is Closed.
C6_FinishedMeansClosed ==
  last.op = "handle" /\ last.ret \in { "true", "err" }
    => last.h.state = "Closed"

\* C7: the state of a handler never moves backward in the order of
\* StateOrder, and no value follows Closed: in the list of the values the
\* state was given, none is followed by an earlier one.
C7_StateNeverMovesBackward ==
  last.op = "handle"
    => \A i \in 1..(Len(last.h.trace) - 1) :
         Rank(last.h.trace[i]) <= Rank(last.h.trace[i + 1])

\* the three bytes at offsets 9..11
StatusOf(bytes) == SubSeq(bytes, 10, 12)

Is200(bytes) == Len(bytes) >= 12 /\ StatusOf(bytes) = Status200

\* C8: the success reply is written and Relaying is entered only after the
\* child has accepted a response; and when what the child reads is no
\* response, is shorter than 12 bytes or has another status than 200, the
\* call ends the session and connection_response is not called.
C8_SuccessReplyOnlyAfter200 ==
  last.op = "handle"
    => /\ ( \/ CallsOf("connection_response") # { }
            \/ \E i \in 1..Len(last.h.trace) : last.h.trace[i] = "Relaying" )
         => /\ last.h.client # << >>
            /\ \E i \in 1..Len(last.h.client[1].trace) :
                 last.h.client[1].trace[i] = "RelayingOUT"
       /\ \A c \in CallsOf("client.handle") :
            c.rd.kind # "none" /\ ~Is200(c.rd.bytes)
              => /\ last.ret \in { "true", "panic" }
                 /\ CallsOf("connection_response") = { }

\* C9: a child in state ConnectionEstablished that reads a response of 12
\* bytes or more goes to RelayingOUT if the bytes at offsets 9..11 are
\* "200", and otherwise signals done and does not go to RelayingOUT.
C9_RelayingOutIffStatus200 ==
  \A c \in CallsOf("client.handle") :
    c.rd.kind = "data" /\ Len(c.rd.bytes) >= 12
      => IF StatusOf(c.rd.bytes) = Status200
         THEN c.cstate = "RelayingOUT" /\ c.ret = "false"
         ELSE c.cstate # "RelayingOUT" /\ c.ret = "true"

\* the frames the claim says method_request accepts
AcceptedFrame(bytes) ==
  /\ Len(bytes) >= 3
  /\ bytes[1] = 5
  /\ Len(bytes) = 2 + bytes[2]
  /\ \E i \in 3..(2 + bytes[2]) : bytes[i] = 0

\* C10: of the bytes a drain has read, method_request accepts (state
\* MethodResponse, not done) exactly the frames with size >= 3, byte 0 = 5,
\* size = 2 + byte 1 and a method octet 0; for all others it leaves the
\* state Closed and returns done; and it writes nothing to the inbound
\* socket.
C10_MethodRequestAcceptsExactly ==
  \A c \in CallsOf("method_request") :
    c.rd.kind = "data"
      => /\ c.sent = << >>
         /\ IF AcceptedFrame(c.rd.bytes)
            THEN c.state = "MethodResponse" /\ c.ret = "false"
            ELSE c.state = "Closed" /\ c.ret = "true"

\* a frame that offers two methods, the second of them 0, is accepted
C10_Witness ==
  \E c \in CallsOf("method_request") :
    c.rd.bytes = << 5, 2, 2, 0 >> /\ c.ret = "false"

\* the host a request names: the address in text for ATYP 1 and 4, the
\* domain as it stands for ATYP 3
RequestHost(req) ==
  CASE req[4] = 1 -> Ipv4String(SubSeq(req, 5, 8))
    [] req[4] = 4 -> Ipv6String(SubSeq(req, 5, 20))
    [] OTHER -> SubSeq(req, 6, 5 + req[5])

\* the port a request names, big endian
RequestPort(req) ==
  CASE req[4] = 1 -> req[9] * 256 + req[10]
    [] req[4] = 4 -> req[21] * 256 + req[22]
    [] OTHER -> req[Len(req) - 1] * 256 + req[Len(req)]

ExpectedConnect(req) ==
  LET hostport == RequestHost(req) \o << 58 >> \o DecimalString(RequestPort(req))
  IN  ConnectPrefix \o hostport \o ConnectMiddle \o hostport \o ConnectSuffix

\* C11: the target of a session that has a child names the host and the
\* port of the request the session has read, the child holds the same
\* target, and what the child writes in state ConnectionRequest is the
\* CONNECT message with that host and port in the request line and in the
\* Host header.
C11_ConnectNamesRequestedTarget ==
  /\ \A k \in LiveKeys :
       Handler(k).client # << >>
         => /\ Handler(k).target.domain = RequestHost(Handler(k).request)
            /\ Handler(k).target.port = RequestPort(Handler(k).request)
            /\ Handler(k).client[1].target = Handler(k).target
  /\ \A c \in CallsOf("client.handle") :
       c.cstate = "ConnectionEstablished" /\ c.wr.kind = "ok"
         => last.h.client[1].sent
              = Take(ExpectedConnect(last.h.request), c.wr.n)

C11_Witness ==
  /\ last.op = "handle"
  /\ last.h.request = DomainRequest
  /\ \E c \in CallsOf("client.handle") :
       c.cstate = "ConnectionEstablished" /\ c.wr.kind = "ok"
  /\ last.h.client[1].sent = ExpectedConnect(DomainRequest)
  /\ SlabContains(slab, last.key)
\* the bytes the upstream socket has accepted after the CONNECT message
SentUpstream(h) ==
  SubSeq(h.client[1].sent, Len(ConnectMessage(h.client[1].target)) + 1,
         Len(h.client[1].sent))

MessageSent(h) ==
  /\ h.client # << >>
  /\ Take(h.client[1].sent, Len(ConnectMessage(h.client[1].target)))
       = ConnectMessage(h.client[1].target)

\* C12: in a session whose CONNECT message went out, when relay_in has
\* read a burst and the upstream socket has taken it whole, the bytes
\* written upstream after the CONNECT message are the bytes read from the
\* inbound socket, in the same order.
C12_InboundBytesReachUpstream ==
  \A c \in CallsOf("relay_in") :
    MessageSent(last.h) /\ c.rd.kind = "data" /\ c.wr.kind = "ok"
      /\ c.ret = "false"
      => SentUpstream(last.h) = last.h.recv
\* the bytes the inbound socket has accepted after the two replies
SentInbound(h) ==
  SubSeq(h.sent, Len(<< 5, 0 >> \o SuccessReply) + 1, Len(h.sent))

RepliesSent(h) ==
  Take(h.sent, Len(<< 5, 0 >> \o SuccessReply)) = << 5, 0 >> \o SuccessReply

\* C13: in a session whose two replies went out, when relay_out has read
\* a burst from the upstream socket and the inbound socket has taken it
\* whole, the bytes written to the inbound socket after the replies are the
\* bytes the upstream sent after the header of its 200 response (those of
\* the read that held the header first), each once and in order.
C13_UpstreamBytesReachInbound ==
  \A c \in CallsOf("relay_out") :
    RepliesSent(last.h) /\ c.rd.kind = "data" /\ c.wr.kind = "ok"
      /\ c.ret = "false"
      => SentInbound(last.h) = last.h.client[1].early \o last.h.upRecv
\* the number of bytes the write of the call c was given
Offered(c) ==
  CASE c.fn = "method_response" -> 2
    [] c.fn = "connection_response" -> Len(SuccessReply)
    [] c.fn = "client.handle" -> Len(ConnectMessage(last.h.client[1].target))
    [] OTHER -> c.rd.n

\* C14: a write that accepts fewer bytes than it was given fails: the call
\* that made it (method_response, connection_response, relay_out towards
\* the inbound socket; the CONNECT message, relay_in towards the upstream)
\* does not return Ok(false): it returns the short-write error, or the
\* done that HttpClient::handle makes of it, and the session ends.
C14_ShortWriteFails ==
  \A i \in 1..Len(Calls) :
    Calls[i].wr.kind = "ok" /\ Calls[i].wr.n < Offered(Calls[i])
      => Calls[i].ret \in { "err", "true" } /\ last.ret \in { "err", "true" }
\* C15: for every handler in state Relaying, handler_map holds exactly one
\* entry whose value is the key of the handler, and subtoken holds exactly
\* one entry whose value is the token of the handler, its key being the
\* token of the child, which is not the token of the handler.
C15_RelayingSessionOwnsItsEntries ==
  \A k \in LiveKeys :
    Handler(k).state = "Relaying"
      => /\ Cardinality({ t \in DOMAIN handler_map : handler_map[t] = k }) = 1
         /\ Handler(k).client # << >>
         /\ Handler(k).client[1].token # Handler(k).token
         /\ { t \in DOMAIN subtoken : subtoken[t] = Handler(k).token }
              = { Handler(k).client[1].token }
\* a request one of whose fields connection_request refuses
RefusedField(bytes) ==
  \/ Len(bytes) >= 1 /\ bytes[1] # 5
  \/ Len(bytes) >= 2 /\ bytes[2] # 1
  \/ Len(bytes) >= 3 /\ bytes[3] # 0
  \/ Len(bytes) >= 4 /\ bytes[4] \notin { 1, 3, 4 }

\* C16: a request whose version is not 5, whose CMD is not 1, whose RSV
\* is not 0 or whose ATYP is none of 1, 3, 4 ends the session: handle
\* returns done with the handler Closed, and the inbound socket has been
\* written nothing but the method reply 05 00.
C16_RefusedRequestEndsSessionSilently ==
  \A c \in CallsOf("connection_request") :
    c.rd.kind = "data" /\ RefusedField(c.rd.bytes)
      => /\ last.ret = "true"
         /\ c.state = "Closed"
         /\ last.h.sent = Take(<< 5, 0 >>, Len(last.h.sent))
\* C17: when connection_request has not parsed the request (it returns
\* done or an error: a field refused, a resolution that fails, a read that
\* fails), the handler has no HTTP client and the child table has no entry
\* whose value is the token of the handler.
C17_ClientOnlyAfterParsedRequest ==
  \A c \in CallsOf("connection_request") :
    c.ret \in { "true", "err" }
      => /\ last.h.client = << >>
         /\ \A t \in DOMAIN subtoken : subtoken[t] # last.h.token
\* C18: the steps of the handshake are taken on the token the step belongs
\* to: handle delegates to the HTTP client (the CONNECT message sent, the
\* response read) only on an event naming the token of the child, and
\* calls connection_response only on an event naming the token of the
\* handler.
C18_HandshakeStepsOnTheirToken ==
  /\ \A c \in CallsOf("client.handle") :
       last.token = last.h.client[1].token
  /\ \A c \in CallsOf("connection_response") : last.token = last.h.token
\* C19: one call of handle changes the state of the handler at most once:
\* the handler it leaves has had at most one more value given to its state
\* than the handler it was called on.
C19_OneStepPerEvent ==
  [][ last'.op = "handle"
        => Len(last'.h.trace) <= Len(Handler(last'.key).trace) + 1 ]_vars
\* C20: a client in state ConnectionEstablished has had its whole CONNECT
\* message accepted by the upstream socket.
C20_EstablishedMeansMessageSent ==
  \A k \in LiveKeys :
    /\ Handler(k).client # << >>
    /\ Handler(k).client[1].state = "ConnectionEstablished"
    => Handler(k).client[1].sent = ConnectMessage(Handler(k).client[1].target)
\* C21: when a write of the HTTP client is interrupted (the CONNECT
\* message in state ConnectionRequest, a burst of the relay towards the
\* upstream), the call returns done and leaves the client Closed.
C21_InterruptedWriteClosesClient ==
  \A c \in CallsOf("client.handle") \cup CallsOf("relay_in") :
    c.wr.kind = "interrupted" => c.ret = "true" /\ c.cstate = "Closed"
\* C22: in state Relaying the state of the HTTP client follows the
\* direction of the relay: a step towards the upstream that has written its
\* burst leaves the client in RelayingIN, and a step towards the inbound
\* socket that has read a burst leaves it in RelayingOUT.
C22_ClientStateFollowsRelay ==
  /\ \A c \in CallsOf("relay_in") :
       c.rd.kind = "data" /\ c.wr.kind = "ok" /\ c.ret = "false"
         => c.cstate = "RelayingIN"
  /\ \A c \in CallsOf("relay_out") :
       c.rd.kind = "data" /\ c.ret = "false" => c.cstate = "RelayingOUT"
\* the handler h has reached Relaying with the two replies written to the
\* inbound socket and the CONNECT message written to the upstream
Established(h) ==
  /\ \E i \in 1..Len(h.trace) : h.trace[i] = "Relaying"
  /\ RepliesSent(h)
  /\ MessageSent(h)

\* the batch holds an event of the token, and the token resolves to a
\* handler in the slab
Dispatchable(token) ==
  /\ status = "running"
  /\ token \in pending
  /\ SlabContains(slab, HandlerKey(token))

\* handle has been called for an event of the token that is readable and
\* writable
HandledReady(token) ==
  /\ last.op = "handle"
  /\ last.token = token
  /\ last.ev = [ readable |-> TRUE, writable |-> TRUE ]

\* the poller delivers the events fairly: a token whose event is in the
\* batch again and again has it handled, readable and writable, again and
\* again
FairEvents ==
  \A token \in 1..(MaxHappyToken - 1) :
    []<>Dispatchable(token) => []<>HandledReady(token)

\* C23: with peers that do everything right and a poller that delivers
\* the events fairly, a session that has been accepted reaches Relaying
\* with 05 00 and the success reply written to the inbound socket and the
\* CONNECT message written to the upstream, unless an error of poll, of
\* accept or of the relay has ended serve.
C23_HappyPathReachesRelaying ==
  FairEvents
    => ((LiveKeys # { })
          ~> \/ status # "running"
             \/ Established(last.h)
             \/ \E k \in LiveKeys : Established(Handler(k)))
\* the handlers whose client has an upstream socket
Parents == { k \in LiveKeys : /\ Handler(k).client # << >>
                               /\ Handler(k).client[1].stream }

\* the tokens the open sockets have been given
Held ==
  { Handler(k).token : k \in LiveKeys }
    \cup { Handler(k).client[1].token : k \in Parents }

\* the tokens the step mints: one for each connection accepted, one for a
\* connection whose set_nodelay or register fails, one for the client that
\* the call of handle creates
Minted ==
  CASE last'.op = "accept" ->
         Cardinality(LiveKeys') - Cardinality(LiveKeys)
           + (IF last'.ret \in { "nodelay_err", "register_err" } THEN 1 ELSE 0)
    [] last'.op = "handle" ->
         IF /\ last'.h.client # << >>
            /\ Handler(last'.key).client = << >>
         THEN 1 ELSE 0
    [] OTHER -> 0

\* C24: the tokens are unique and increasing.  In every step the token
\* counter advances by one for each token the step mints; a token that a
\* socket holds after the step and that no socket held before it is at
\* least the counter before the step and below the counter after it, so it
\* is greater than every token minted before and is not the token 0 of the
\* listener; and no two open sockets hold the same token.
C24_TokensUniqueAndIncreasing ==
  [][ /\ unique_token' = unique_token + Minted
      /\ \A t \in Held' \ Held : t >= unique_token /\ t < unique_token'
      /\ SERVER \notin Held'
      /\ Cardinality(Held') = Cardinality(LiveKeys') + Cardinality(Parents')
    ]_vars

C24_Witness ==
  /\ last.op = "handle"
  /\ Parents # { }
  /\ unique_token = 5
  /\ Held = { 3, 4 }
\* clear_buffer leaves size 0 and a buffer of 4096 bytes
Cleared(o) == o.size = 0 /\ o.buffer.len = BufferInit

\* the handler and its client as a step of the loop has left them
Sound(h) ==
  /\ Fits(h)
  /\ Cleared(ClearBuffer(h))
  /\ h.client # << >> => Cleared(ClientClearBuffer(h.client[1]))

\* C25: size <= buffer.len in the buffer of every handler and of its
\* client, after every function that handle has called and after handle
\* itself, the steps of the relay that clear, reset and copy the buffers
\* included; and clear_buffer leaves size 0 and a buffer of 4096 bytes.
C25_SizeWithinBuffer ==
  /\ \A k \in LiveKeys : Sound(Handler(k))
  /\ last.op = "handle" => Sound(last.h)
  /\ \A i \in 1..Len(Calls) : Calls[i].fits

C25_Witness ==
  /\ \E c \in CallsOf("relay_in") :
       c.rd.kind = "data" /\ c.rd.n > 0 /\ c.wr.kind = "ok" /\ c.ret = "false"
  /\ last.h.client[1].size = 0
  /\ last.h.client[1].buffer.len = 1
  /\ last.h.size = 1
\* the token is not in handler_map and is not a child whose parent is
Unresolved(token) ==
  /\ token \notin DOMAIN handler_map
  /\ ~(token \in DOMAIN subtoken /\ subtoken[token] \in DOMAIN handler_map)

\* C26: the dispatch of an event whose token resolves to no handler
\* changes nothing: no handler is called or removed, the slab, the two maps
\* and the token counter are as they were, and serve is still running.
C26_UnknownTokenChangesNothing ==
  [][ last'.op \in { "unknown", "vacant", "handle" } /\ Unresolved(last'.token)
        => /\ last'.op = "unknown"
           /\ status' = "running"
           /\ UNCHANGED << slab, handler_map, subtoken, unique_token >> ]_vars

C26_Witness ==
  /\ last.op = "unknown"
  /\ Unresolved(last.token)
  /\ last.token \in DOMAIN subtoken
  /\ LiveKeys # { }
\* the states in which handle reaches for the client
ClientStates ==
  { "ClientConnectionRequest", "ClientConnectionResponse",
    "ConnectionResponse", "Relaying" }

\* C27: a handler in the slab (handle has not returned done for it) that
\* is in state ClientConnectionRequest, ClientConnectionResponse,
\* ConnectionResponse or Relaying holds exactly one HTTP client, whose
\* upstream socket is present; in state MethodRequest, MethodResponse or
\* ConnectionRequest it holds none.
C27_ClientPresentWhenUsed ==
  \A k \in LiveKeys :
    /\ Handler(k).state \in ClientStates
         => Len(Handler(k).client) = 1 /\ Handler(k).client[1].stream
    /\ Handler(k).state \in { "MethodRequest", "MethodResponse",
                              "ConnectionRequest" }
         => Handler(k).client = << >>

C27_Witness ==
  /\ last.op = "handle"
  /\ SlabContains(slab, last.key)
  /\ Handler(last.key).state = "Relaying"
  /\ Handler(last.key).client[1].stream
  /\ CallsOf("relay_out") # { }
====
